---- MODULE Spec2Model ----
(***************************************************************************)
(* EasyTunnel: the relay (tunnel server) and the request forwarder of the  *)
(* agent (tunnel client).                                                  *)
(*                                                                         *)
(* The relay is a single Node.js event loop: every handler below runs to   *)
(* completion, and the continuation of `await responsePromise` runs as a   *)
(* microtask of the callback that settled the promise, so a handler and    *)
(* the continuation it releases form one action.                           *)
(***************************************************************************)
EXTENDS Integers, Sequences, FiniteSets, TLC

\* ---- bounds -------------------------------------------------------------
MaxSockets == 2         \* control connections ever opened to the relay
MaxRequests == 2        \* public HTTP requests ever received
MaxAttempts == 3        \* connection attempts of the agent that are told apart
MaxBeats == 2           \* heartbeat packets ever received from one connection

Sockets == 1..MaxSockets
Requests == 1..MaxRequests

\* ---- values -------------------------------------------------------------
null == <<>>            \* activeClient is null, or <<record>> when set

ServiceUnavailable == 503
ServerError == 500

\* request tuples handed over by the HTTP listener (method, path, headers, body)
RequestTuples ==
  { [method |-> "GET", path |-> "/status", headers |-> "h1", body |-> ""],
    [method |-> "POST", path |-> "/items", headers |-> "h2", body |-> "b"] }

NoRequest == [method |-> "", path |-> "", headers |-> "", body |-> ""]

\* what the local service may answer: a status, headers as (name, value)
\* pairs, and the text of the body
LocalResponses ==
  { [statusCode |-> 200, headers |-> {<<"content-type", "text/plain">>},
     body |-> "ok"] }

NoResponse == [statusCode |-> 0, headers |-> {}, body |-> ""]

\* a body as JavaScript holds it: a string, an object (written here as its
\* JSON.stringify text) or null
NoData == [type |-> "string", json |-> ""]

\* outcomes of the axios call of handleTunnelRequest: a response of the local
\* service (validateStatus accepts every status), or an error with a code
LocalOutcomes ==
  { [code |-> "OK", message |-> "", response |-> x] : x \in LocalResponses }
  \cup
  { [code |-> "ECONNREFUSED", message |-> "connect ECONNREFUSED", response |-> NoResponse],
    [code |-> "ECONNABORTED", message |-> "timeout exceeded", response |-> NoResponse] }

\* an ack packet that answers no emit of the relay
StrayResponse ==
  [statusCode |-> 200, headers |-> {<<"content-type", "text/plain">>},
   body |-> [type |-> "string", json |-> "stray"]]

\* the credentials a connection may present: a JWT with its signature checked
\* against JWT_SECRET, its expiry, and its payload (generateToken.ts:11-20)
ValidToken ==
  [present |-> TRUE, signed |-> TRUE, expired |-> FALSE,
   clientId |-> "c1", type |-> "tunnel-client"]

Tokens ==
  { ValidToken,
    [ValidToken EXCEPT !.present = FALSE],
    [ValidToken EXCEPT !.signed = FALSE],
    [ValidToken EXCEPT !.expired = TRUE],
    [ValidToken EXCEPT !.type = "other"],
    [ValidToken EXCEPT !.clientId = ""] }

\* no credential presented yet
NoToken ==
  [present |-> FALSE, signed |-> FALSE, expired |-> FALSE,
   clientId |-> "", type |-> ""]

VARIABLES
  activeClient,   \* part_001:29   null or <<[socket, authenticated, lastHeartbeat]>>
  sock,           \* per connection: "fresh", "refused", "attached", "rejected",
                  \* "closed"
  acks,           \* socket.io: per socket, the ack callbacks registered by emit
  ids,            \* socket.io: the next ack id
  reqNet,         \* tunnel_request packets on their way to the agent
  ackNet,         \* ack packets on their way to the relay, each with the
                  \* request its response was produced for
  pc,             \* per public request: "idle", "waiting", "done", "aborted"
  req,            \* per public request: its tunnelRequest
  timer,          \* per public request: the 30000 ms timeout is armed
  promise,        \* per public request: state of responsePromise
  res,            \* per public request: the responses written to the caller
  sentTo,         \* per public request: socket the tunnel_request went to (0: none)
  ackOf,          \* per public request: ack id of its tunnel_request (-1: none)
  rejectedDuring, \* history: requests that were pending when a connection was rejected
  now,            \* Date.now(): read once per event that stores it, and it has
                  \* advanced since the reading before
  cred,           \* per connection: socket.handshake.auth.token
  beats,          \* per connection: heartbeat packets of it that reached the relay
  hbAcked,        \* per connection: heartbeat_ack packets the relay emitted on it
  agent,          \* the TunnelClient and the relay as the agent sees it
  rt              \* one request on its way through the tunnel and back

\* the relay's request handling
relayVars == <<activeClient, sock, acks, ids, reqNet, ackNet, pc, req, timer,
               promise, res, sentTo, ackOf, rejectedDuring, now, cred>>

vars == <<activeClient, sock, acks, ids, reqNet, ackNet, pc, req, timer,
          promise, res, sentTo, ackOf, rejectedDuring, now, cred, beats,
          hbAcked, agent, rt>>

\* the agent and the round trip before they start
AgentIdle ==
  [token |-> ValidToken,         \* config.authToken
   relay |-> "free",             \* the relay for a newcomer: "down", "busy", "free"
   socket |-> "null",            \* this.socket: "null", "connecting", "connected",
                                 \* "closed" (after 'disconnect'), "failed"
   doomed |-> FALSE,             \* the relay has turned this.socket away already
   reconnectTimeout |-> "null",  \* this.reconnectTimeout: "null", or the state
                                 \* of the timer it names: "armed", "fired"
   timers |-> 0,                 \* reconnect timers armed in the event loop
   heartbeatInterval |-> FALSE,  \* this.heartbeatInterval is set
   stray |-> 0,                  \* sockets replaced in this.socket while open
   via |-> "startup",            \* history: how this.socket last went down
   attempts |-> 0]               \* history: sockets connect() has created, as
                                 \* far as MaxAttempts tells them apart

RtIdle ==
  [stage |-> "off", request |-> NoRequest, local |-> NoResponse,
   response |-> [statusCode |-> 0, headers |-> {}, body |-> NoData],
   out |-> NoResponse]

\* ---- helpers ------------------------------------------------------------
Pending == {r \in Requests : pc[r] = "waiting"}

PendingOn(s) == {r \in Pending : sentTo[r] = s}

Attached == {s \in Sockets : sock[s] = "attached"}

\* the connections come up in the order of their ids, the requests too
NextFresh(s) == sock[s] = "fresh" /\ \A t \in Sockets : t < s => sock[t] # "fresh"

NextIdle(r) == pc[r] = "idle" /\ \A q \in Requests : q < r => pc[q] # "idle"

\* ---- the relay: Socket.IO connection handling ---------------------------
\* the exclusivity check left out
AlreadyConnected_never(ac) == FALSE

\* part_001:73  if (activeClient)
AlreadyConnected(ac) == ac # null

\* the newcomer takes the slot although it is turned away
Attach_replace(ac, s, t) ==
  <<[socket |-> s, authenticated |-> TRUE, lastHeartbeat |-> t]>>

\* part_001:73-87  the value of activeClient after the connection handler
Attach(ac, s, t) ==
  IF AlreadyConnected(ac)
    THEN ac
    ELSE <<[socket |-> s, authenticated |-> TRUE, lastHeartbeat |-> t]>>

\* every disconnect event clears the slot, whichever socket it is for
OnDisconnect_unguarded(ac, s, listening) == null

\* part_001:106-111  the value of activeClient after a 'disconnect' event of
\* socket s; listening: the handler of line 106 was registered on s
OnDisconnect(ac, s, listening) ==
  IF listening /\ ac # null /\ ac[1].socket = s THEN null ELSE ac

RelayInit ==
  /\ activeClient = null
  /\ sock = [s \in Sockets |-> "fresh"]
  /\ acks = [s \in Sockets |-> {}]
  /\ ids = 0
  /\ reqNet = {}
  /\ ackNet = {}
  /\ pc = [r \in Requests |-> "idle"]
  /\ req = [r \in Requests |-> NoRequest]
  /\ timer = [r \in Requests |-> FALSE]
  /\ promise = [r \in Requests |-> "none"]
  /\ res = [r \in Requests |-> <<>>]
  /\ sentTo = [r \in Requests |-> 0]
  /\ ackOf = [r \in Requests |-> -1]
  /\ rejectedDuring = {}
  /\ now = 0
  /\ cred = [s \in Sockets |-> NoToken]
  /\ beats = [s \in Sockets |-> 0]
  /\ hbAcked = [s \in Sockets |-> 0]

\* the role tag of the payload is not looked at
Authenticate_noRole(token) ==
  IF ~token.present THEN "Authentication token required"
  ELSE IF ~token.signed \/ token.expired THEN "Invalid token"
  ELSE IF token.clientId = "" THEN "Invalid token payload"
  ELSE ""

\* part_001:32-66  io.use: the error the middleware passes to next(), ""
\* when it lets the socket in; jwt.verify throws on a bad signature and on
\* an expired token
Authenticate(token) ==
  IF ~token.present THEN "Authentication token required"
  ELSE IF ~token.signed \/ token.expired THEN "Invalid token"
  ELSE IF token.clientId = "" \/ token.type # "tunnel-client"
    THEN "Invalid token payload"
  ELSE ""

\* part_001:69-116  io.on('connection') for a socket that passed io.use
Connection(s) ==
  /\ NextFresh(s)
  /\ IF AlreadyConnected(activeClient)
       THEN \* 73-81: socket.disconnect() fires 'disconnect' before line 106
            \* registered a handler for it
            /\ sock' = [sock EXCEPT ![s] = "rejected"]
            /\ activeClient' = OnDisconnect(Attach(activeClient, s, now), s, FALSE)
            /\ rejectedDuring' = rejectedDuring \cup Pending
       ELSE /\ sock' = [sock EXCEPT ![s] = "attached"]
            /\ activeClient' = Attach(activeClient, s, now)
            /\ UNCHANGED rejectedDuring
  /\ now' = now + 1
  /\ UNCHANGED <<acks, ids, reqNet, ackNet, pc, req, timer, promise, res,
                 sentTo, ackOf>>

\* part_001:32-116  a connection presents its credential: socket.io runs the
\* middleware and calls the connection handler only when it let the socket in
Handshake(s, token) ==
  /\ cred' = [cred EXCEPT ![s] = token]
  /\ IF Authenticate(token) = ""
       THEN Connection(s)
       ELSE /\ NextFresh(s)
            /\ sock' = [sock EXCEPT ![s] = "refused"]
            /\ UNCHANGED <<activeClient, acks, ids, reqNet, ackNet, pc, req,
                           timer, promise, res, sentTo, ackOf, rejectedDuring,
                           now>>

\* part_001:106-111  socket.on('disconnect') of an accepted socket; the ack
\* callbacks of the socket stay registered and are never called, and the
\* packets in flight on the closed connection are lost
Disconnect(s) ==
  /\ sock[s] = "attached"
  /\ sock' = [sock EXCEPT ![s] = "closed"]
  /\ activeClient' = OnDisconnect(activeClient, s, TRUE)
  /\ reqNet' = {m \in reqNet : m.sock # s}
  /\ ackNet' = {m \in ackNet : m.sock # s}
  /\ UNCHANGED <<acks, ids, pc, req, timer, promise, res,
                 sentTo, ackOf, rejectedDuring, now>>

\* every socket has the heartbeat handler, whether it was let in or not
HeartbeatListening_any(s) == TRUE

\* part_001:73-96  the handler of line 90 is registered on a socket the
\* connection handler did not turn away, and socket.io hands it no packet
\* once the socket is disconnected
HeartbeatListening(s) == sock[s] = "attached"

\* part_001:90-96  a heartbeat packet of connection s reaches the relay
Heartbeat(s) ==
  /\ sock[s] # "fresh"
  /\ beats[s] < MaxBeats
  /\ beats' = [beats EXCEPT ![s] = @ + 1]
  /\ IF HeartbeatListening(s) /\ activeClient # null
       THEN /\ activeClient' = <<[activeClient[1] EXCEPT !.lastHeartbeat = now]>>
            /\ hbAcked' = [hbAcked EXCEPT ![s] = @ + 1]
            /\ now' = now + 1
       ELSE UNCHANGED <<activeClient, hbAcked, now>>
  /\ UNCHANGED <<sock, acks, ids, reqNet, ackNet, pc, req, timer, promise, res,
                 sentTo, ackOf, rejectedDuring, cred>>

\* ---- the relay: HTTP request handling -----------------------------------
\* part_001:172  the text res.send writes for a body: a string as it is, an
\* object as JSON.stringify writes it, null as nothing
SendBody(data) ==
  IF data.type = "null" THEN "" ELSE data.json

\* part_001:13-26, 167-172  the headers of the answer: express and cors put
\* theirs first, res.setHeader then sets the given ones over them, and
\* res.send sets a Content-Type when there is none, the Content-Length of
\* what it writes and an ETag
SendHeaders(h, data) ==
  LET named(hs, n) == {p \in hs : p[1] = n}
      own == {<<"x-powered-by", "Express">>, <<"vary", "Origin">>}
      set == {p \in own : named(h, p[1]) = {}} \cup h
      typed == IF named(set, "content-type") # {} THEN set
               ELSE set \cup {<<"content-type",
                                IF data.type = "string" THEN "text/html; charset=utf-8"
                                ELSE "application/json; charset=utf-8">>}
  IN  {p \in typed : p[1] \notin {"content-length", "etag"}}
        \cup {<<"content-length", ToString(Len(SendBody(data)))>>}
        \cup (IF named(typed, "etag") # {} THEN named(typed, "etag")
              ELSE {<<"etag", SendBody(data)>>})

\* part_001:167-172  what the caller gets from res.status(..).send(..)
Send(status, h, data) ==
  [statusCode |-> status, headers |-> SendHeaders(h, data), body |-> SendBody(data)]

\* part_001:125  res.status(503).json(...)
Unavailable ==
  Send(ServiceUnavailable, {},
       [type |-> "object", json |-> "{error:Tunnel client not connected}"])

\* part_001:180  res.status(500).json(...)
Failed ==
  Send(ServerError, {},
       [type |-> "object", json |-> "{error:Failed to process request}"])

\* the check for an attached client left out
NoClient_never(ac) == FALSE

\* part_001:120  if (!activeClient)
NoClient(ac) == ac = null

\* both callbacks answer the caller, whichever ran first
Settles_always(p) == TRUE

\* part_001:142-156  a promise is settled by the first resolve or reject only
Settles(p) == p = "pending"

\* part_001:173-181  the catch block: the logger call reads
\* activeClient.socket, a TypeError when activeClient is null; the async
\* handler then rejects and nothing is written to res
Catch(ac) ==
  IF ac = null
    THEN [pc |-> "aborted", out |-> <<>>]
    ELSE [pc |-> "done", out |-> <<Failed>>]

\* part_001:158-172  the handler after `await responsePromise` fulfilled; the
\* logger call of line 164 reads activeClient.socket inside the try block
Completed(ac, response) ==
  IF ac = null
    THEN Catch(ac)
    ELSE [pc |-> "done",
          out |-> <<Send(response.statusCode, response.headers, response.body)>>]

\* the counter of ack ids stands still
NextAckId_stuck(i) == i

\* socket.io emit with an ack callback: the ack id after id i (ids++)
NextAckId(i) == i + 1

\* part_001:119-156  app.all('*') up to the await
HttpRequest(r, tuple) ==
  /\ NextIdle(r)
  /\ req' = [req EXCEPT ![r] = tuple]
  /\ IF NoClient(activeClient)
       THEN \* 120-126
            /\ pc' = [pc EXCEPT ![r] = "done"]
            /\ res' = [res EXCEPT ![r] = Append(@, Unavailable)]
            /\ UNCHANGED <<acks, ids, reqNet, timer, promise, sentTo, ackOf>>
       ELSE IF activeClient = null
       THEN \* 135-139: the logger call reads activeClient.socket
            /\ pc' = [pc EXCEPT ![r] = "aborted"]
            /\ UNCHANGED <<acks, ids, reqNet, timer, promise, res, sentTo, ackOf>>
       ELSE \* 141-158: arm the timeout, emit with an ack callback, await
            LET s == activeClient[1].socket IN
            /\ pc' = [pc EXCEPT ![r] = "waiting"]
            /\ promise' = [promise EXCEPT ![r] = "pending"]
            /\ timer' = [timer EXCEPT ![r] = TRUE]
            /\ acks' = [acks EXCEPT ![s] = @ \cup {[id |-> ids, r |-> r]}]
            /\ ids' = NextAckId(ids)
            /\ reqNet' = reqNet \cup {[sock |-> s, id |-> ids, request |-> tuple]}
            /\ sentTo' = [sentTo EXCEPT ![r] = s]
            /\ ackOf' = [ackOf EXCEPT ![r] = ids]
            /\ UNCHANGED res
  /\ UNCHANGED <<activeClient, sock, ackNet, rejectedDuring, now>>

\* the catch block drops the session when a request timed out
Timeout_teardown(r) ==
  /\ timer[r]
  /\ timer' = [timer EXCEPT ![r] = FALSE]
  /\ IF Settles(promise[r])
       THEN /\ promise' = [promise EXCEPT ![r] = "rejected"]
            /\ pc' = [pc EXCEPT ![r] = Catch(activeClient).pc]
            /\ res' = [res EXCEPT ![r] = @ \o Catch(activeClient).out]
            /\ activeClient' = null
       ELSE UNCHANGED <<promise, pc, res, activeClient>>
  /\ UNCHANGED <<sock, acks, ids, reqNet, ackNet, req, sentTo,
                 ackOf, rejectedDuring, now>>

\* part_001:143-150  the setTimeout callback, then the catch block
Timeout(r) ==
  /\ timer[r]
  /\ timer' = [timer EXCEPT ![r] = FALSE]
  /\ IF Settles(promise[r])
       THEN /\ promise' = [promise EXCEPT ![r] = "rejected"]
            /\ pc' = [pc EXCEPT ![r] = Catch(activeClient).pc]
            /\ res' = [res EXCEPT ![r] = @ \o Catch(activeClient).out]
       ELSE UNCHANGED <<promise, pc, res>>
  /\ UNCHANGED <<activeClient, sock, acks, ids, reqNet, ackNet, req, sentTo,
                 ackOf, rejectedDuring, now>>

\* an ack is matched to any waiting callback of the socket
AckLookup_any(s, id) == acks[s]

\* an ack is matched to the oldest waiting callback of the socket
AckLookup_fifo(s, id) == {e \in acks[s] : \A f \in acks[s] : e.id <= f.id}

\* socket.io onack: the callbacks registered on socket s under ack id
AckLookup(s, id) == {e \in acks[s] : e.id = id}

\* socket.io onack for packet m: the callback registered under the packet's id
\* on that socket is called once (part_001:152-155) and unregistered; a packet
\* with an id the socket has no callback for is dropped
OnAck(m) ==
  /\ IF AckLookup(m.sock, m.id) # {}
       THEN LET e == CHOOSE e \in AckLookup(m.sock, m.id) : TRUE
                r == e.r
            IN  /\ acks' = [acks EXCEPT ![m.sock] = @ \ {e}]
                /\ timer' = [timer EXCEPT ![r] = FALSE]
                /\ IF Settles(promise[r])
                     THEN /\ promise' = [promise EXCEPT ![r] = "fulfilled"]
                          /\ pc' = [pc EXCEPT ![r] = Completed(activeClient, m.response).pc]
                          /\ res' = [res EXCEPT ![r] = @ \o Completed(activeClient, m.response).out]
                     ELSE UNCHANGED <<promise, pc, res>>
       ELSE UNCHANGED <<acks, timer, promise, pc, res>>
  /\ UNCHANGED <<activeClient, sock, ids, reqNet, req, sentTo, ackOf,
                 rejectedDuring, now>>

\* the ack packet the agent sent for a tunnel_request reaches the relay
Ack(m) ==
  /\ m \in ackNet
  /\ ackNet' = ackNet \ {m}
  /\ OnAck(m)

\* an ack packet arrives on the attached socket s under an id that socket s
\* has no callback for: never issued, issued on another socket, or not yet
\* used
StrayAck(s, id) ==
  /\ sock[s] = "attached"
  /\ \A e \in acks[s] : e.id # id
  /\ UNCHANGED ackNet
  /\ OnAck([sock |-> s, id |-> id, request |-> NoRequest, response |-> StrayResponse])

\* ---- the agent: Request Forwarder ---------------------------------------
\* the texts among the bodies that are JSON, and the text JSON.stringify
\* writes for the value each parses to
JsonTexts == {"{ok:true}", "{ ok: true }", "null"}

Stringified(text) == IF text = "{ ok: true }" THEN "{ok:true}" ELSE text

\* client/src/index.ts:132-150  response.data: axios parses a body that is
\* JSON and hands over any other body as a string
AxiosData(text) ==
  IF text \in JsonTexts
    THEN [type |-> IF text = "null" THEN "null" ELSE "object",
          json |-> Stringified(text)]
    ELSE [type |-> "string", json |-> text]

\* client/src/index.ts:123-162  handleTunnelRequest, o the outcome of axios
handleTunnelRequest(request, o) ==
  IF o.code = "OK"
    THEN [threw |-> FALSE, message |-> "",
          response |-> [statusCode |-> o.response.statusCode,
                        headers |-> o.response.headers,
                        body |-> AxiosData(o.response.body)]]
    ELSE IF o.code = "ECONNREFUSED"
    THEN [threw |-> TRUE, message |-> "Local service is not running",
          response |-> [statusCode |-> 0, headers |-> {}, body |-> NoData]]
    ELSE [threw |-> TRUE, message |-> o.message,
          response |-> [statusCode |-> 0, headers |-> {}, body |-> NoData]]

\* client/src/index.ts:90-116  the argument of callback(...)
OnTunnelRequest(request, o) ==
  LET h == handleTunnelRequest(request, o) IN
  IF h.threw
    THEN [statusCode |-> 500, headers |-> {},
          body |-> [type |-> "object", json |-> h.message]]
    ELSE h.response

\* a failed local call is logged and not answered
Callbacks_silent(request, o) ==
  IF handleTunnelRequest(request, o).threw
    THEN {}
    ELSE {OnTunnelRequest(request, o)}

\* client/src/index.ts:102, 109  the calls of callback(...) the handler makes:
\* one at the end of the try block or one in the catch block
Callbacks(request, o) == {OnTunnelRequest(request, o)}

\* client/src/index.ts:90-116  socket.on('tunnel_request'): the handlers of
\* several requests run concurrently and call back in any order
TunnelRequest(m, o) ==
  /\ m \in reqNet
  /\ reqNet' = reqNet \ {m}
  /\ ackNet' = ackNet \cup
       {[sock |-> m.sock, id |-> m.id, request |-> m.request, response |-> x] :
          x \in Callbacks(m.request, o)}
  /\ UNCHANGED <<activeClient, sock, acks, ids, pc, req, timer, promise, res,
                 sentTo, ackOf, rejectedDuring, now>>

\* what the steps of the relay's request handling leave alone
aside == <<beats, hbAcked, agent, rt>>

Next ==
  \/ \E s \in Sockets : Connection(s) /\ UNCHANGED <<cred>> /\ UNCHANGED aside
  \/ \E s \in Sockets : Disconnect(s) /\ UNCHANGED <<cred>> /\ UNCHANGED aside
  \/ \E r \in Requests, tuple \in RequestTuples :
        HttpRequest(r, tuple) /\ UNCHANGED <<cred>> /\ UNCHANGED aside
  \/ \E r \in Requests : Timeout(r) /\ UNCHANGED <<cred>> /\ UNCHANGED aside
  \/ \E m \in ackNet : Ack(m) /\ UNCHANGED <<cred>> /\ UNCHANGED aside
  \/ \E m \in reqNet, o \in LocalOutcomes :
        TunnelRequest(m, o) /\ UNCHANGED <<cred>> /\ UNCHANGED aside
  \/ \E s \in Sockets, id \in 0..ids :
        StrayAck(s, id) /\ UNCHANGED <<cred>> /\ UNCHANGED aside

Init == RelayInit /\ agent = AgentIdle /\ rt = RtIdle

Spec == Init /\ [][Next]_vars

\* ---- the relay: connections with their credentials, and requests ---------
AuthNext ==
  \/ \E s \in Sockets, token \in Tokens : Handshake(s, token) /\ UNCHANGED aside
  \/ \E s \in Sockets : Disconnect(s) /\ UNCHANGED <<cred>> /\ UNCHANGED aside
  \/ \E r \in Requests, tuple \in RequestTuples :
        HttpRequest(r, tuple) /\ UNCHANGED <<cred>> /\ UNCHANGED aside

AuthSpec == Init /\ [][AuthNext]_vars

\* ---- the relay: connections and their heartbeats -------------------------
HeartbeatNext ==
  \/ \E s \in Sockets, token \in Tokens : Handshake(s, token) /\ UNCHANGED aside
  \/ \E s \in Sockets : Disconnect(s) /\ UNCHANGED <<cred>> /\ UNCHANGED aside
  \/ \E s \in Sockets : Heartbeat(s) /\ UNCHANGED <<agent, rt>>

HeartbeatSpec == Init /\ [][HeartbeatNext]_vars

\* ---- one request through the tunnel and back, without faults -------------
\* what the local service answers in the round trip
RtLocalResponses ==
  [statusCode : {200, 404},
   headers : {{<<"content-type", "application/json">>},
              {<<"content-type", "text/plain">>, <<"x-request-id", "7">>}},
   body : {"ok", "{ok:true}", "{ ok: true }", "null"}]

\* a request arrives while an agent is attached
RtInit ==
  /\ RelayInit
  /\ agent = AgentIdle
  /\ \E tuple \in RequestTuples, local \in RtLocalResponses :
        rt = [RtIdle EXCEPT !.stage = "arrived", !.request = tuple, !.local = local]

\* part_001:128-156  the relay emits the tunnelRequest it built
RtForward ==
  /\ rt.stage = "arrived"
  /\ rt' = [rt EXCEPT !.stage = "forwarded"]
  /\ UNCHANGED <<relayVars, beats, hbAcked, agent>>

\* client/src/index.ts:90-116  the agent calls the local service, which
\* answers rt.local, and calls back
RtHandle ==
  /\ rt.stage = "forwarded"
  /\ rt' = [rt EXCEPT !.stage = "answered",
                      !.response = OnTunnelRequest(rt.request,
                         [code |-> "OK", message |-> "", response |-> rt.local])]
  /\ UNCHANGED <<relayVars, beats, hbAcked, agent>>

\* part_001:158-172  the ack resolves the promise and the handler answers
RtDeliver ==
  /\ rt.stage = "answered"
  /\ rt' = [rt EXCEPT !.stage = "delivered",
                      !.out = Completed(Attach(null, 1, 0), rt.response).out[1]]
  /\ UNCHANGED <<relayVars, beats, hbAcked, agent>>

RtNext == RtForward \/ RtHandle \/ RtDeliver

RoundTripSpec == RtInit /\ [][RtNext]_vars

\* ---- the agent: connection management ------------------------------------
RelayStates == {"down", "busy", "free"}

\* the agent's states as the state machine names them
Disconnected == agent.socket \in {"null", "closed", "failed"}

Connecting == agent.socket = "connecting"

Connected == agent.socket = "connected"

\* the socket.io manager reopens a socket that went down
Reconnection_on == "connecting"

\* client/src/index.ts:57  reconnection: false, a socket that went down
\* stays closed
Reconnection == "closed"

\* the timer fires again and again, as an interval does
Fired_repeating(a) == a

\* client/src/index.ts:198  setTimeout: the timer that fires is armed no more,
\* this.reconnectTimeout keeps naming it
Fired(a) ==
  [a EXCEPT !.timers = a.timers - 1,
            !.reconnectTimeout = IF @ = "armed" THEN "fired" ELSE @]

\* client/src/index.ts:44-62  connect(): a new socket unless the present one
\* is connected; startHeartbeat replaces the interval
connect(a) ==
  IF a.socket = "connected"
    THEN a
    ELSE [a EXCEPT !.socket = "connecting",
                   !.doomed = FALSE,
                   !.stray = IF a.socket = "connecting" THEN @ + 1 ELSE @,
                   !.attempts = IF @ < MaxAttempts THEN @ + 1 ELSE @,
                   !.heartbeatInterval = TRUE]

\* client/src/index.ts:189-207  scheduleReconnect(): clearTimeout of the timer
\* this.reconnectTimeout names, then a new timer
scheduleReconnect(a) ==
  [a EXCEPT !.timers = (IF a.reconnectTimeout = "armed" THEN @ - 1 ELSE @) + 1,
            !.reconnectTimeout = "armed"]

\* client/src/index.ts:67-75  socket.on('connect')
OnConnect(a) ==
  [a EXCEPT !.socket = "connected",
            !.timers = IF a.reconnectTimeout = "armed" THEN @ - 1 ELSE @,
            !.reconnectTimeout = "null"]

\* client/src/index.ts:77-84  socket.on('disconnect'): stopHeartbeat, then
\* scheduleReconnect
OnAgentDisconnect(a) ==
  scheduleReconnect([a EXCEPT !.socket = Reconnection,
                              !.doomed = FALSE,
                              !.heartbeatInterval = FALSE,
                              !.via = "drop"])

\* the agent process after construction, the relay in any state
AgentInit ==
  /\ RelayInit
  /\ rt = RtIdle
  /\ \E token \in Tokens, relay \in RelayStates :
        agent = [AgentIdle EXCEPT !.token = token, !.relay = relay]

\* client/src/index.ts:34-42, 211-215  client.start(), called once
Start ==
  /\ agent.socket = "null"
  /\ agent' = connect(agent)
  /\ UNCHANGED <<relayVars, beats, hbAcked, rt>>

\* the relay lets the socket in (part_001:32-66 passes) and the 'connect'
\* event fires; a relay whose slot is taken sends 'error' and a disconnect
\* right behind (part_001:73-81)
HandshakeOk ==
  /\ agent.socket = "connecting"
  /\ agent.relay # "down" /\ Authenticate(agent.token) = ""
  /\ agent' = [OnConnect(agent) EXCEPT !.doomed = (agent.relay = "busy")]
  /\ UNCHANGED <<relayVars, beats, hbAcked, rt>>

\* the relay is unreachable or its middleware refuses the token: the socket
\* emits 'connect_error', which client/src/index.ts:64-121 has no listener
\* for, and with reconnection: false nothing tries again
HandshakeFail ==
  /\ agent.socket = "connecting"
  /\ agent.relay = "down" \/ Authenticate(agent.token) # ""
  /\ agent' = [agent EXCEPT !.socket = "failed", !.via = "failed"]
  /\ UNCHANGED <<relayVars, beats, hbAcked, rt>>

\* the disconnect the relay sent behind its 'error' arrives
ServerDisconnect ==
  /\ agent.socket = "connected" /\ agent.doomed
  /\ agent' = OnAgentDisconnect(agent)
  /\ UNCHANGED <<relayVars, beats, hbAcked, rt>>

\* the connection of a connected socket is lost
Drop ==
  /\ agent.socket = "connected" /\ ~agent.doomed
  /\ agent' = OnAgentDisconnect(agent)
  /\ UNCHANGED <<relayVars, beats, hbAcked, rt>>

\* client/src/index.ts:198-206  the reconnect timer fires; connect() does not
\* throw, so the catch block of line 202 is never entered
ReconnectTimer ==
  /\ agent.timers > 0
  /\ agent' = connect(Fired(agent))
  /\ UNCHANGED <<relayVars, beats, hbAcked, rt>>

\* the relay goes down, comes up, or its slot is taken or given up by
\* another agent
RelayChanges(x) ==
  /\ x # agent.relay
  /\ agent' = [agent EXCEPT !.relay = x]
  /\ UNCHANGED <<relayVars, beats, hbAcked, rt>>

\* generateToken.ts:17-19  expiresIn: the token of the agent expires
TokenExpires ==
  /\ Authenticate(agent.token) = ""
  /\ agent' = [agent EXCEPT !.token.expired = TRUE]
  /\ UNCHANGED <<relayVars, beats, hbAcked, rt>>

AgentNext ==
  \/ Start
  \/ TokenExpires
  \/ HandshakeOk
  \/ HandshakeFail
  \/ ServerDisconnect
  \/ Drop
  \/ ReconnectTimer
  \/ \E x \in RelayStates : RelayChanges(x)

\* what the event loop and socket.io see to by themselves: start() runs, an
\* armed timer fires, a handshake ends one way or the other, a disconnect
\* the relay sent arrives
AgentFairness ==
  /\ WF_vars(Start)
  /\ WF_vars(ReconnectTimer)
  /\ WF_vars(HandshakeOk)
  /\ WF_vars(HandshakeFail)
  /\ WF_vars(ServerDisconnect)

AgentSpec == AgentInit /\ [][AgentNext]_vars /\ AgentFairness

\* the response written to a caller from the ack packet m
Delivered(m) ==
  <<Send(m.response.statusCode, m.response.headers, m.response.body)>>

\* the ack packets a step consumes while the connections stay as they are
Consumed == IF sock' = sock THEN ackNet \ ackNet' ELSE {}

\* ---- C1 ------------------------------------------------------------------
\* C1: at most one accepted connection is attached at any instant, and it is
\* the one activeClient records; a connection is never accepted while another
\* is attached.
C1_Exclusivity ==
  /\ Cardinality(Attached) <= 1
  /\ activeClient = null <=> Attached = {}
  /\ activeClient # null => Attached = {activeClient[1].socket}

\* a second connection was turned away while a client is attached
C1_Witness ==
  \E s, t \in Sockets : sock[s] = "attached" /\ sock[t] = "rejected"

\* ---- C2 ------------------------------------------------------------------
\* C2: the attached Session is removed only by the disconnect of its own
\* connection; the disconnect of any other connection (one turned away at
\* attach) leaves activeClient as it is.
C2_StaleDetach ==
  [][activeClient # null /\ activeClient' # activeClient =>
       /\ activeClient' = null
       /\ sock[activeClient[1].socket] = "attached"
       /\ sock'[activeClient[1].socket] = "closed"]_vars

\* a connection was turned away and disconnected while requests wait on the
\* attached one
C2_Witness ==
  \E s, t \in Sockets :
      /\ sock[t] = "rejected"
      /\ activeClient # null /\ activeClient[1].socket = s
      /\ PendingOn(s) # {}

\* ---- C3 ------------------------------------------------------------------
\* C3: a connection that arrives while a Session is attached is rejected and
\* closed, the Session (handle, lastHeartbeat) and everything pending on it
\* stay as they are, and the requests that were pending then are later
\* answered from the acks of the socket they were sent to.
C3_RejectLeavesSession ==
  [][/\ \A s \in Sockets :
          (sock[s] = "fresh" /\ sock'[s] # "fresh" /\ activeClient # null) =>
             /\ sock'[s] = "rejected"
             /\ activeClient' = activeClient
             /\ UNCHANGED <<acks, ids, reqNet, ackNet, pc, req, timer, promise,
                            res, sentTo, ackOf>>
     /\ \A r \in rejectedDuring :
          (promise[r] = "pending" /\ promise'[r] = "fulfilled") =>
             \E m \in Consumed :
                /\ m.sock = sentTo[r]
                /\ activeClient' # null /\ activeClient'[1].socket = m.sock
                /\ res'[r] = Delivered(m)]_vars

\* a request that was pending when a connection was rejected has been
\* answered with the agent's response
C3_Witness ==
  \E r \in rejectedDuring : pc[r] = "done" /\ promise[r] = "fulfilled"

\* ---- C4 ------------------------------------------------------------------
\* C4: once the detach of a Session has been processed no request is pending
\* on it: every pending request waits on the connection that is attached now.
C4_SessionLossCascade ==
  \A r \in Pending :
     activeClient # null /\ activeClient[1].socket = sentTo[r]

\* ---- C5 ------------------------------------------------------------------
\* C5: a dispatched request whose handler has finished has delivered exactly
\* one outcome to its caller and is no longer pending.
C5_DispatchedIsAnswered ==
  \A r \in Requests :
     (sentTo[r] # 0 /\ pc[r] # "waiting") => (pc[r] = "done" /\ Len(res[r]) = 1)

C7_NoSessionFastFail ==
  [][\A r \in Requests :
       (pc[r] = "idle" /\ pc'[r] # "idle" /\ activeClient = null) =>
          /\ pc'[r] = "done"
          /\ res'[r] = <<Unavailable>>
          /\ UNCHANGED <<activeClient, sock, acks, ids, reqNet, ackNet, timer,
                         promise, sentTo, ackOf>>]_vars

\* a request was answered 503 after the agent had gone
C7_Witness ==
  \E r \in Requests, s \in Sockets :
     /\ sock[s] = "closed"
     /\ pc[r] = "done" /\ res[r] = <<Unavailable>> /\ sentTo[r] = 0

\* ---- C8 ------------------------------------------------------------------
\* C8: a request whose deadline expired with an agent attached is answered
\* with an outcome of its own, which is neither the service-unavailable
\* response nor the generic server-error response.
C8_TimedOutIsDistinct ==
  \A r \in Requests :
     (promise[r] = "rejected" /\ pc[r] = "done") =>
        /\ Len(res[r]) = 1
        /\ res[r][1].statusCode \notin {ServiceUnavailable, ServerError}
        /\ res[r][1] # Failed

\* ---- C9 ------------------------------------------------------------------
\* C9: the state of a request (its promise, its place in the handler, what
\* its caller got) changes only on its arrival, on its own timeout while it
\* is pending, or on the ack of its own tunnel_request while it is pending;
\* an ack for anything else changes none of it, nor the Session.
C9_LateResponseDiscarded ==
  [][/\ \A r \in Requests :
          (pc'[r] # pc[r] \/ res'[r] # res[r] \/ promise'[r] # promise[r]) =>
             \/ pc[r] = "idle"
             \/ /\ pc[r] = "waiting" /\ timer[r] /\ promise'[r] = "rejected"
                /\ Consumed = {}
             \/ /\ pc[r] = "waiting" /\ promise'[r] = "fulfilled"
                /\ \E m \in Consumed : m.sock = sentTo[r] /\ m.id = ackOf[r]
     /\ activeClient' # activeClient => sock' # sock]_vars

\* the late response of a timed-out request has been taken off the wire
C9_Witness ==
  \E r \in Requests :
     /\ promise[r] = "rejected"
     /\ res[r] = <<Failed>>
     /\ activeClient # null /\ activeClient[1].socket = sentTo[r]
     /\ \A e \in acks[sentTo[r]] : e.r # r
     /\ \A m \in ackNet : m.id # ackOf[r]

\* ---- C10 -----------------------------------------------------------------
\* C10: whatever the order of the acks, a caller answered from an ack gets
\* the response the agent produced for that caller's own request: the ack
\* carries the id of the caller's tunnel_request, came over the socket it was
\* sent to, and answers that request.
C10_Correlation ==
  [][\A r \in Requests :
       (promise[r] = "pending" /\ promise'[r] = "fulfilled") =>
          \E m \in Consumed :
             /\ m.id = ackOf[r] /\ m.sock = sentTo[r] /\ m.request = req[r]
             /\ res'[r] = Delivered(m)
             /\ \A q \in Requests \ {r} : res'[q] = res[q]]_vars

\* the request dispatched later was answered first, with a different
\* response than the other one then got
C10_Witness ==
  \E r, q \in Requests :
     /\ sentTo[r] = sentTo[q] /\ ackOf[r] < ackOf[q]
     /\ promise[r] = "fulfilled" /\ promise[q] = "fulfilled"
     /\ res[r] # res[q]
     /\ req[r] # req[q]

\* ---- C11 -----------------------------------------------------------------
\* C11: with an agent attached and no fault, the (statusCode, headers, body)
\* delivered to the public caller equals the tuple the local service
\* produced for the forwarded request.
C11_RoundTrip ==
  rt.stage = "delivered" =>
     /\ rt.out.statusCode = rt.local.statusCode
     /\ rt.out.headers = rt.local.headers
     /\ rt.out.body = rt.local.body

\* ---- C12 -----------------------------------------------------------------
\* C12: if from some point on the relay is reachable, accepts the agent's
\* credential and has a free slot, the agent is Connected again and again,
\* whatever way it lost or missed its connection before.
C12_ReconnectLiveness ==
  <>[](agent.relay = "free" /\ Authenticate(agent.token) = "")
     => []<>(Connected /\ ~agent.doomed)

\* ---- C13 -----------------------------------------------------------------
\* C13: whenever the agent is Disconnected other than before its startup, after
\* a lost connection as after a failed handshake, a reconnect timer is armed.
C13_DisconnectedArmsTimer ==
  (Disconnected /\ agent.socket # "null") =>
     (agent.timers > 0 /\ agent.reconnectTimeout = "armed")

\* ---- C14 -----------------------------------------------------------------
\* C14: a connection whose credential is absent, badly signed, expired or
\* without the agent role tag is refused before attach and stays refused; its
\* attempt leaves activeClient and everything about the pending requests as
\* they are.
C14_AuthFailureIsLocal ==
  [][\A s \in Sockets :
        /\ (/\ sock[s] = "fresh" /\ sock'[s] # "fresh"
            /\ \/ ~cred'[s].present
               \/ ~cred'[s].signed
               \/ cred'[s].expired
               \/ cred'[s].type # "tunnel-client") =>
              /\ sock'[s] = "refused"
              /\ activeClient' = activeClient
              /\ UNCHANGED <<acks, ids, reqNet, ackNet, pc, req, timer, promise,
                             res, sentTo, ackOf>>
        /\ sock[s] = "refused" => sock'[s] = "refused"]_vars

\* a connection without the role tag was refused while requests wait on the
\* attached one
C14_Witness ==
  \E s, t \in Sockets :
     /\ sock[s] = "attached" /\ PendingOn(s) # {}
     /\ s < t /\ sock[t] = "refused" /\ cred[t].type # "tunnel-client"

\* ---- C20 -----------------------------------------------------------------
\* C20: a heartbeat of a connection that is not the one activeClient records
\* changes neither activeClient nor the acknowledgements sent; a heartbeat of
\* the attached connection sets lastHeartbeat and is acknowledged on it.
C20_StaleHeartbeat ==
  [][\A s \in Sockets :
        beats'[s] # beats[s] =>
           IF activeClient # null /\ activeClient[1].socket = s
             THEN /\ activeClient' = <<[activeClient[1] EXCEPT !.lastHeartbeat = now]>>
                  /\ hbAcked' = [hbAcked EXCEPT ![s] = @ + 1]
             ELSE /\ activeClient' = activeClient
                  /\ hbAcked' = hbAcked]_vars

\* a connection that was turned away has sent a heartbeat while another one
\* is attached
C20_Witness ==
  \E s, t \in Sockets :
     /\ sock[s] = "attached" /\ activeClient # null
     /\ sock[t] = "rejected" /\ beats[t] > 0 /\ hbAcked[t] = 0

\* ---- C17 -----------------------------------------------------------------
\* C17: at most one reconnect timer is armed, a timer is armed only while the
\* agent is Disconnected, and a Connected agent has no reconnect timer
\* pending.
C17_TimerDiscipline ==
  /\ agent.timers <= 1
  /\ agent.timers > 0 => Disconnected
  /\ Connected => (agent.timers = 0 /\ agent.reconnectTimeout = "null")

\* the agent is Connected again after its reconnect timer fired
C17_Witness ==
  Connected /\ ~agent.doomed /\ agent.via = "drop" /\ agent.attempts > 1

\* ---- C18 -----------------------------------------------------------------
\* C18: at most one socket of the agent is open (Connecting or Connected) at
\* any time: connect() replaces this.socket only when the socket it holds is
\* closed.
C18_OneAttemptInFlight ==
  agent.stray + (IF Connecting \/ Connected THEN 1 ELSE 0) <= 1

\* a retry started by the reconnect timer is in flight
C18_Witness ==
  Connecting /\ agent.via = "drop" /\ agent.attempts > 1

\* ---- C15 -----------------------------------------------------------------
\* C15: for every tunnel_request the agent takes in, it sends exactly one
\* ack, for that request: the response of the local service, or a response
\* with the server-error status and a diagnostic body when the local call
\* failed.
C15_ForwarderAnswers ==
  [][sock' = sock =>
       \A m \in reqNet \ reqNet' :
          /\ Cardinality(ackNet' \ ackNet) = 1
          /\ \A a \in ackNet' \ ackNet :
                /\ a.sock = m.sock /\ a.id = m.id /\ a.request = m.request
                /\ \/ \E x \in LocalResponses :
                         /\ a.response.statusCode = x.statusCode
                         /\ a.response.headers = x.headers
                         /\ a.response.body = AxiosData(x.body)
                   \/ /\ a.response.statusCode = ServerError
                      /\ a.response.body.type = "object"
                      /\ a.response.body.json # ""]_vars

\* the agent has answered a request whose local call was refused
C15_Witness ==
  \E a \in ackNet :
     /\ a.response.statusCode = ServerError
     /\ a.response.body.json = "Local service is not running"

\* ---- C16 -----------------------------------------------------------------
\* C16: when a request ends by its deadline, by the catch block or with a
\* server-error response of the agent, activeClient and the connections stay
\* as they are and every other pending request stays pending, with its timer
\* and its ack callback.
C16_FailureKeepsSession ==
  [][\A r \in Requests :
        (/\ pc[r] = "waiting" /\ pc'[r] # "waiting"
         /\ \/ promise'[r] = "rejected"
            \/ pc'[r] = "aborted"
            \/ res'[r] # <<>> /\ res'[r][1].statusCode = ServerError) =>
           /\ activeClient' = activeClient
           /\ sock' = sock
           /\ \A q \in Pending \ {r} :
                 /\ pc'[q] = "waiting"
                 /\ timer'[q] = timer[q] /\ promise'[q] = promise[q]
                 /\ \A s \in Sockets : \A e \in acks[s] :
                      e.r = q => e \in acks'[s]]_vars

\* a request has timed out and got the server-error response while another
\* one still waits on the attached connection
C16_Witness ==
  \E r, q \in Requests :
     /\ promise[r] = "rejected" /\ pc[r] = "done" /\ res[r] = <<Failed>>
     /\ pc[q] = "waiting" /\ timer[q]
     /\ activeClient # null /\ sentTo[q] = activeClient[1].socket

\* ---- C19 -----------------------------------------------------------------
\* C19: no two pending requests wait under the same ack id of the same
\* connection, and no connection holds two ack callbacks under one id.
C19_UniqueCorrelation ==
  /\ \A r, q \in Pending :
        (sentTo[r] = sentTo[q] /\ ackOf[r] = ackOf[q]) => r = q
  /\ \A s \in Sockets : \A e, f \in acks[s] : e.id = f.id => e = f

\* two requests are pending on the same connection
C19_Witness ==
  \E r, q \in Pending : r # q /\ sentTo[r] = sentTo[q]

\* ---- C21 -----------------------------------------------------------------
\* C21: whenever the handler of a dispatched request resumes after its await,
\* on the agent's response or on the expiry of its deadline, activeClient is
\* set when the handler reads the client's identity from it, and the handler
\* runs to its end instead of aborting.
C21_SessionPresentOnResume ==
  [][\A r \in Requests :
        (pc[r] = "waiting" /\ pc'[r] # "waiting") =>
           (activeClient # null /\ pc'[r] = "done")]_vars

====
